---- MODULE Spec2Model ----
(***************************************************************************)
(* ZV.0 code analysis agent (src/zv0_agent.py).                            *)
(*                                                                         *)
(* The analysed text is a sequence of lines; each line is an indentation   *)
(* column and one statement.  ast.parse turns the text into a tree whose   *)
(* statement nodes are numbered by their line (pre-order); node 0 is the   *)
(* Module.  A call is an expression statement whose value is the call, so  *)
(* the Call node stands one level below its statement and the breadth      *)
(* first order of ast.walk over the calls is that of their statements.     *)
(* The And/Or operator nodes of an `if` test are expression nodes too:     *)
(* they are counted (boolops), and never change the order in which         *)
(* ast.walk meets the statements.                                          *)
(***************************************************************************)
EXTENDS Integers, Sequences, FiniteSets, TLC

VARIABLES
    pc,         \* "idle" | "new" | "ready" | "args" | "done"
    config,     \* ZV0Agent.config (its "analysis" section), or NoConfig
    code,       \* the text handed to analyze_code
    fault,      \* the step of that call at which memory ran out, or "none"
    outcome,    \* "none" | "returned" | "raised": how the last call ended
    report,     \* the AnalysisReport returned, or NoReport
    issuesArg,  \* the issues argument of a direct _calculate_scores call
    metricsArg, \* the metrics argument (cyclomatic_complexity) of that call
    scores      \* the dict returned by that call, or NoScores

vars == <<pc, config, code, fault, outcome, report, issuesArg, metricsArg, scores>>

---------------------------------------------------------------------------
(* Bounds of the model *)

\* longest analysed text, in lines
MaxLines == 4
\* longest run of one issue in a list handed to _calculate_scores
MaxRepeat == 21
\* most issues of a second kind in that list
MaxOther == 1
\* how far the complexity handed to _calculate_scores lies off the threshold
MaxOver == 2
\* deepest indentation column of a line: one block per line at most
MaxIndent == MaxLines - 1

NoConfig == "NoConfig"
NoReport == "NoReport"
NoScores == "NoScores"

---------------------------------------------------------------------------
(* The analysed text *)

Stmt(kind, func, id, boolops) ==
    [kind |-> kind, func |-> func, id |-> id, boolops |-> boolops]

\* `def f():`, `for x in xs:` and `if a and b or c and d:`, whose test holds
\* three operator nodes (Or, And, And).  A `while` statement is read by the
\* same tests as a `for` and is left out of the texts.
CompoundStmts ==
    { Stmt("FunctionDef", "", "", 0), Stmt("For", "", "", 0),
      Stmt("If", "", "", 3) }

\* `eval(x)`, `print(x)` and `os.eval(x)`
SimpleStmts ==
    { Stmt("Call", "Name", "eval", 0), Stmt("Call", "Name", "print", 0),
      Stmt("Call", "Attribute", "eval", 0) }

\* A line that is no statement.  Comment lines ("Comment") and empty lines
\* ("Blank") are read by the parser and the metrics below, and are left out
\* of the texts.
OtherLines == { Stmt("Garbage", "", "", 0) }

Line(indent, stmt) == [indent |-> indent, stmt |-> stmt]

IsCompound(stmt) ==
    stmt.kind \in {"FunctionDef", "ClassDef", "For", "While", "If"}

---------------------------------------------------------------------------
(* ast.parse: the text to a tree, or a SyntaxError *)

Exc(type, msg) == [type |-> type, msg |-> msg]

Where(n) == " (<unknown>, line " \o ToString(n) \o ")"

IsLogical(l) == l.stmt.kind \notin {"Comment", "Blank"}

\* The lines the tokenizer hands to the grammar, each with its line number:
\* comment lines and empty lines are dropped.
LogicalLines(text) ==
    SelectSeq([n \in 1..Len(text) |->
                  [lineno |-> n, indent |-> text[n].indent,
                   stmt |-> text[n].stmt]],
              IsLogical)

\* the indentation stack after logical line n
RECURSIVE OpenColumns(_, _)
OpenColumns(toks, n) ==
    IF n = 0 THEN {0}
    ELSE { c \in OpenColumns(toks, n - 1) : c < toks[n].indent }
         \cup {toks[n].indent}

\* A logical line the tokenizer or the grammar rejects: a line that is no
\* statement, a first line that is indented, a line indented deeper than the
\* one before it when that one opens no block, and a dedent to a column that
\* no enclosing block has.
BadLine(toks, n) ==
    \/ toks[n].stmt.kind = "Garbage"
    \/ n = 1 /\ toks[n].indent # 0
    \/ n > 1 /\ toks[n].indent > toks[n - 1].indent
             /\ ~IsCompound(toks[n - 1].stmt)
    \/ n > 1 /\ toks[n].indent < toks[n - 1].indent
             /\ toks[n].indent \notin OpenColumns(toks, n - 1)

\* the first rejected logical line, 0 when there is none
FirstBadLine(toks) ==
    IF \E n \in 1..Len(toks) : BadLine(toks, n)
    THEN CHOOSE n \in 1..Len(toks) :
            BadLine(toks, n) /\ \A m \in 1..(n - 1) : ~BadLine(toks, m)
    ELSE 0

SyntaxErrorOf(toks, n) ==
    IF n = 1 /\ toks[n].indent # 0
    THEN Exc("IndentationError", "unexpected indent" \o Where(toks[n].lineno))
    ELSE IF n > 1 /\ toks[n].indent > toks[n - 1].indent
                  /\ ~IsCompound(toks[n - 1].stmt)
    THEN Exc("IndentationError", "unexpected indent" \o Where(toks[n].lineno))
    ELSE IF n > 1 /\ toks[n].indent < toks[n - 1].indent
                  /\ toks[n].indent \notin OpenColumns(toks, n - 1)
    THEN Exc("IndentationError",
             "unindent does not match any outer indentation level"
                \o Where(toks[n].lineno))
    ELSE Exc("SyntaxError", "invalid syntax" \o Where(toks[n].lineno))

\* The statement that owns logical line n: the nearest earlier one at a
\* smaller column, 0 (the Module) when there is none.
ParentOf(toks, n) ==
    LET above == { m \in 1..(n - 1) : toks[m].indent < toks[n].indent }
    IN  IF above = {} THEN 0
        ELSE CHOOSE m \in above : \A k \in above : k <= m

Node(toks, n) ==
    [kind |-> toks[n].stmt.kind, func |-> toks[n].stmt.func,
     id |-> toks[n].stmt.id, boolops |-> toks[n].stmt.boolops,
     lineno |-> toks[n].lineno, parent |-> ParentOf(toks, n)]

\* The tree of a text that parses: node n is the n-th statement of the text
\* (pre-order), node 0 the Module.
parse(text) ==
    LET toks == LogicalLines(text)
    IN  [n \in 1..Len(toks) |-> Node(toks, n)]

\* what ast.parse raises on the text: NoExc when it parses
NoExc == Exc("", "")

ParseError(text) ==
    LET toks == LogicalLines(text)
    IN  IF FirstBadLine(toks) = 0 THEN NoExc
        ELSE SyntaxErrorOf(toks, FirstBadLine(toks))

---------------------------------------------------------------------------
(* ast.walk: breadth first from the Module, children in source order *)

RECURSIVE ChildrenFrom(_, _, _)
ChildrenFrom(tree, p, n) ==
    \* the children of node p among the nodes n..Len(tree), in order
    IF n > Len(tree) THEN <<>>
    ELSE IF tree[n].parent = p
         THEN <<n>> \o ChildrenFrom(tree, p, n + 1)
         ELSE ChildrenFrom(tree, p, n + 1)

iter_child_nodes(tree, p) == ChildrenFrom(tree, p, 1)

RECURSIVE WalkFrom(_, _)
WalkFrom(tree, todo) ==
    IF todo = <<>> THEN <<>>
    ELSE <<Head(todo)>>
            \o WalkFrom(tree, Tail(todo) \o iter_child_nodes(tree, Head(todo)))

\* The nodes in the order ast.walk yields them; 0 is the Module.
walk(tree) == WalkFrom(tree, <<0>>)

KindOf(tree, n) == IF n = 0 THEN "Module" ELSE tree[n].kind

---------------------------------------------------------------------------
(* CodeAnalyzer._calculate_metrics *)

ComplexityMetrics(complexity, loc, ratio, functions, classes) ==
    [cyclomatic_complexity |-> complexity, lines_of_code |-> loc,
     comment_ratio |-> ratio, function_count |-> functions,
     class_count |-> classes]

\* comment_lines / loc, kept as the pair of the two integers; 0 is 0/1
Ratio(num, den) == [num |-> num, den |-> den]

\* The nodes of one statement that count towards the complexity: the
\* statement itself when it is an If, For or While, and the And/Or operator
\* nodes of its expression.
BranchNodes(tree, n) ==
    IF n = 0 THEN 0
    ELSE (IF tree[n].kind \in {"If", "For", "While"} THEN 1 ELSE 0)
            + tree[n].boolops

RECURSIVE CountBranches(_, _, _)
CountBranches(tree, order, complexity) ==
    IF order = <<>> THEN complexity
    ELSE CountBranches(tree, Tail(order),
                       complexity + BranchNodes(tree, Head(order)))

CountKind(tree, order, kind) ==
    Cardinality({ i \in 1..Len(order) : KindOf(tree, order[i]) = kind })

\* _calculate_metrics with `complexity = 0` before the loop
MetricsFromZero(tree, text) ==
    LET loc == Cardinality({ n \in 1..Len(text) : text[n].stmt.kind # "Blank" })
        comment_lines ==
            Cardinality({ n \in 1..Len(text) : text[n].stmt.kind = "Comment" })
        order == walk(tree)
    IN  ComplexityMetrics(
            CountBranches(tree, order, 0),
            loc,
            IF loc > 0 THEN Ratio(comment_lines, loc) ELSE Ratio(0, 1),
            CountKind(tree, order, "FunctionDef"),
            CountKind(tree, order, "ClassDef"))

_calculate_metrics(tree, text) ==
    LET loc == Cardinality({ n \in 1..Len(text) : text[n].stmt.kind # "Blank" })
        comment_lines ==
            Cardinality({ n \in 1..Len(text) : text[n].stmt.kind = "Comment" })
        order == walk(tree)
    IN  ComplexityMetrics(
            CountBranches(tree, order, 1),
            loc,
            IF loc > 0 THEN Ratio(comment_lines, loc) ELSE Ratio(0, 1),
            CountKind(tree, order, "FunctionDef"),
            CountKind(tree, order, "ClassDef"))

---------------------------------------------------------------------------
(* CodeAnalyzer._analyze_code *)

CodeIssue(severity, line_number, message, category) ==
    [severity |-> severity, line_number |-> line_number,
     message |-> message, category |-> category]

DangerousNames == {"eval", "exec", "open"}

\* SecurityIssues without the `isinstance(node.func, ast.Name)` test
SecurityIssuesAnyCallee(tree, n) ==
    IF n # 0 /\ tree[n].kind = "Call" /\ tree[n].id \in DangerousNames
    THEN << CodeIssue("high", tree[n].lineno,
                      "Potentially dangerous function: " \o tree[n].id,
                      "security") >>
    ELSE <<>>

\* the issue the security pass appends at node n, if any
SecurityIssues(tree, n) ==
    IF n # 0 /\ tree[n].kind = "Call" /\ tree[n].func = "Name"
             /\ tree[n].id \in DangerousNames
    THEN << CodeIssue("high", tree[n].lineno,
                      "Potentially dangerous function: " \o tree[n].id,
                      "security") >>
    ELSE <<>>

RECURSIVE SecurityPass(_, _, _)
SecurityPass(tree, order, issues) ==
    IF order = <<>> THEN issues
    ELSE SecurityPass(tree, Tail(order),
                      issues \o SecurityIssues(tree, Head(order)))

\* LoopDepthAfter without the reset at a function definition
LoopDepthNoReset(tree, n, loop_depth) ==
    IF KindOf(tree, n) \in {"For", "While"} THEN loop_depth + 1
    ELSE loop_depth

\* loop_depth after node n, given loop_depth before it
LoopDepthAfter(tree, n, loop_depth) ==
    IF KindOf(tree, n) \in {"For", "While"} THEN loop_depth + 1
    ELSE IF KindOf(tree, n) = "FunctionDef" THEN 0
    ELSE loop_depth

\* the issue the complexity pass appends at node n, if any
LoopIssues(tree, n, loop_depth) ==
    IF KindOf(tree, n) \in {"For", "While"} /\ loop_depth + 1 > 2
    THEN << CodeIssue("medium", tree[n].lineno,
                      "Deeply nested loops (depth "
                         \o ToString(loop_depth + 1) \o ")",
                      "performance") >>
    ELSE <<>>

RECURSIVE ComplexityPass(_, _, _, _)
ComplexityPass(tree, order, loop_depth, issues) ==
    IF order = <<>> THEN issues
    ELSE ComplexityPass(tree, Tail(order),
                        LoopDepthAfter(tree, Head(order), loop_depth),
                        issues \o LoopIssues(tree, Head(order), loop_depth))

_analyze_code(tree) ==
    LET order == walk(tree)
    IN  ComplexityPass(tree, order, 0, SecurityPass(tree, order, <<>>))

---------------------------------------------------------------------------
(* CodeAnalyzer._calculate_scores *)

Scores(overall, security, maintainability, performance) ==
    [overall |-> overall, security |-> security,
     maintainability |-> maintainability, performance |-> performance]

Max(a, b) == IF a >= b THEN a ELSE b

\* `if metrics.cyclomatic_complexity > 10`
ComplexityThreshold == 10

Deduction(issue) ==
    IF issue.severity = "high" THEN 5
    ELSE IF issue.severity = "medium" THEN 3
    ELSE 1

\* one turn of the loop over the issues
DeductIssue(s, issue) ==
    Scores(s.overall - Deduction(issue),
           IF issue.category = "security"
               THEN s.security - Deduction(issue) ELSE s.security,
           s.maintainability,
           IF issue.category # "security" /\ issue.category = "performance"
               THEN s.performance - Deduction(issue) ELSE s.performance)

\* DeductIssues with `deduction = 1` set once before the loop and the
\* `else` branch left out: a low issue takes the deduction of the issue
\* before it
RECURSIVE DeductCarrying(_, _, _)
DeductCarrying(s, issues, deduction) ==
    IF issues = <<>> THEN s
    ELSE LET issue == Head(issues)
             d == IF issue.severity = "high" THEN 5
                  ELSE IF issue.severity = "medium" THEN 3
                  ELSE deduction
         IN  DeductCarrying(
                Scores(s.overall - d,
                       IF issue.category = "security"
                           THEN s.security - d ELSE s.security,
                       s.maintainability,
                       IF issue.category = "performance"
                           THEN s.performance - d ELSE s.performance),
                Tail(issues), d)

DeductIssuesCarry(s, issues) == DeductCarrying(s, issues, 1)

RECURSIVE DeductIssues(_, _)
DeductIssues(s, issues) ==
    IF issues = <<>> THEN s
    ELSE DeductIssues(DeductIssue(s, Head(issues)), Tail(issues))

\* DeductComplexity with `>= 10` in place of `> 10`
DeductComplexityFrom10(s, complexity) ==
    IF complexity >= ComplexityThreshold
    THEN Scores(s.overall - 5, s.security, s.maintainability - 10,
                s.performance)
    ELSE s

DeductComplexity(s, complexity) ==
    IF complexity > ComplexityThreshold
    THEN Scores(s.overall - 5, s.security, s.maintainability - 10,
                s.performance)
    ELSE s

\* Clamp without the `max(0, ...)`
ClampNothing(s) == s

Clamp(s) ==
    Scores(Max(0, s.overall), Max(0, s.security), Max(0, s.maintainability),
           Max(0, s.performance))

_calculate_scores(issues, complexity) ==
    Clamp(DeductComplexity(DeductIssues(Scores(100, 100, 100, 100), issues),
                           complexity))

---------------------------------------------------------------------------
(* CodeAnalyzer._generate_suggestions *)

Lowercase == "abcdefghijklmnopqrstuvwxyz"
Uppercase == "ABCDEFGHIJKLMNOPQRSTUVWXYZ"

\* the place of the one-character string c in the alphabet, 0 when absent
IndexIn(c, alphabet) ==
    IF \E i \in 1..Len(alphabet) : SubSeq(alphabet, i, i) = c
    THEN CHOOSE i \in 1..Len(alphabet) : SubSeq(alphabet, i, i) = c
    ELSE 0

upper(c) ==
    IF IndexIn(c, Lowercase) = 0 THEN c
    ELSE SubSeq(Uppercase, IndexIn(c, Lowercase), IndexIn(c, Lowercase))

lower(c) ==
    IF IndexIn(c, Uppercase) = 0 THEN c
    ELSE SubSeq(Lowercase, IndexIn(c, Uppercase), IndexIn(c, Uppercase))

RECURSIVE LowerAll(_)
LowerAll(str) ==
    IF Len(str) = 0 THEN ""
    ELSE lower(SubSeq(str, 1, 1)) \o LowerAll(SubSeq(str, 2, Len(str)))

\* str.capitalize: the first character upper case, the rest lower case
capitalize(str) ==
    IF Len(str) = 0 THEN ""
    ELSE upper(SubSeq(str, 1, 1)) \o LowerAll(SubSeq(str, 2, Len(str)))

\* Suggestion without the `.capitalize()`
SuggestionAsIs(issue) == issue.category \o ": " \o issue.message

Suggestion(issue) == capitalize(issue.category) \o ": " \o issue.message

_generate_suggestions(issues) ==
    [i \in 1..Len(issues) |-> Suggestion(issues[i])]

---------------------------------------------------------------------------
(* AnalysisReport, CodeAnalyzer._error_report, CodeAnalyzer.analyze_code *)

AnalysisReport(s, metrics, issues, suggestions) ==
    [overall_score |-> s.overall, security_score |-> s.security,
     maintainability_score |-> s.maintainability,
     performance_score |-> s.performance,
     complexity_metrics |-> metrics, issues |-> issues,
     suggestions |-> suggestions]

_error_report(error) ==
    AnalysisReport(Scores(0, 0, 0, 0),
                   ComplexityMetrics(0, 0, Ratio(0, 1), 0, 0),
                   << CodeIssue("high", 0, "Analysis error: " \o error,
                                "general") >>,
                   << "Check your input code" >>)

\* The step of the try block after the parse at which the interpreter may
\* run out of memory: the second traversal, when the metrics are computed
\* already.  str(MemoryError()) is the empty string.
Faults == {"none", "_analyze_code"}

OutOfMemory == Exc("MemoryError", "")

\* the classes `except Exception` catches
ExceptionClasses == {"SyntaxError", "IndentationError", "MemoryError"}

\* what the try block raises: NoExc when it reaches its return
Raised(text, at) ==
    LET syntax == ParseError(text)
    IN  IF syntax # NoExc THEN syntax
        ELSE IF at # "none" THEN OutOfMemory
        ELSE NoExc

\* the report the try block returns when nothing is raised
Analysed(text) ==
    LET tree == parse(text)
        metrics == _calculate_metrics(tree, text)
        issues == _analyze_code(tree)
    IN  AnalysisReport(
            _calculate_scores(issues, metrics.cyclomatic_complexity),
            metrics, issues, _generate_suggestions(issues))

\* Caught with `except SyntaxError` in place of `except Exception`
CaughtSyntaxError(exc) == exc.type \in {"SyntaxError", "IndentationError"}

Caught(exc) == exc.type \in ExceptionClasses

\* [outcome, report] of analyze_code(text, language, file_path)
analyze_code(text, at) ==
    LET exc == Raised(text, at)
    IN  IF exc = NoExc
        THEN [outcome |-> "returned", report |-> Analysed(text)]
        ELSE IF Caught(exc)
        THEN [outcome |-> "returned", report |-> _error_report(exc.msg)]
        ELSE [outcome |-> "raised", report |-> NoReport]

---------------------------------------------------------------------------
(* ZV0Agent.__init__, _load_config, _default_config *)

\* the "analysis" section of a configuration
Config(security_checks, performance_checks) ==
    [security_checks |-> security_checks,
     performance_checks |-> performance_checks]

\* yaml.safe_load(f) or {} of an empty file
EmptyConfig == [k \in {} |-> TRUE]

_default_config == Config(TRUE, TRUE)

\* What the constructor is given: no path, the path of a file that cannot be
\* opened, of an empty file, or of a file that holds a configuration.
ConfigSources ==
    { [path |-> "None", file |-> EmptyConfig],
      [path |-> "missing.yaml", file |-> EmptyConfig],
      [path |-> "empty.yaml", file |-> EmptyConfig],
      [path |-> "config.yaml", file |-> Config(FALSE, TRUE)],
      [path |-> "config.yaml", file |-> Config(TRUE, FALSE)] }

_load_config(source) ==
    IF source.path = "None" THEN _default_config
    ELSE IF source.path = "missing.yaml" THEN _default_config
    ELSE source.file

---------------------------------------------------------------------------
(* The analysed text, written a line at a time *)

InputLines ==
    { Line(i, st) : i \in 0..MaxIndent, st \in CompoundStmts \cup SimpleStmts }
        \cup { Line(0, st) : st \in OtherLines }

\* the column of the last statement of the text, 0 when it has none
LastIndent(text) ==
    LET toks == LogicalLines(text)
    IN  IF toks = <<>> THEN 0 ELSE toks[Len(toks)].indent

Init ==
    /\ pc = "edit"
    /\ config = NoConfig
    /\ code = <<>>
    /\ fault = "none"
    /\ outcome = "none"
    /\ report = NoReport
    /\ issuesArg = <<>>
    /\ metricsArg = 0
    /\ scores = NoScores

\* One more line of text: one block deeper than the last statement at most,
\* and nothing after a line that ast.parse rejects (it stops at the first).
TypeLine ==
    /\ pc = "edit"
    /\ Len(code) < MaxLines
    /\ ParseError(code) = NoExc
    /\ LET deepest == LastIndent(code) + 1
       IN  \E l \in InputLines :
            /\ l.indent <= deepest
            /\ code' = Append(code, l)
    /\ UNCHANGED <<pc, config, fault, outcome, report, issuesArg, metricsArg,
                   scores>>

\* report = analyzer.analyze_code(code, "python", file_path)
AnalyzeCode ==
    /\ pc = "edit"
    /\ \E at \in Faults :
        LET r == analyze_code(code, at)
        IN  /\ at # "none" => ParseError(code) = NoExc
            /\ fault' = at
            /\ outcome' = r.outcome
            /\ report' = r.report
    /\ pc' = "done"
    /\ UNCHANGED <<config, code, issuesArg, metricsArg, scores>>

\* the report is discarded; the analyzer keeps nothing between calls
NextCall ==
    /\ pc = "done"
    /\ pc' = "edit"
    /\ fault' = "none"
    /\ outcome' = "none"
    /\ report' = NoReport
    /\ UNCHANGED <<config, code, issuesArg, metricsArg, scores>>

Next == TypeLine \/ AnalyzeCode \/ NextCall

Spec == Init /\ [][Next]_vars

---------------------------------------------------------------------------
(* CodeAnalyzer()._calculate_scores(issues, metrics), called on its own *)

Severities == {"high", "medium", "low"}
Categories == {"security", "performance", "general"}

IssueKinds ==
    { CodeIssue(sev, 1, "issue", cat) : sev \in Severities, cat \in Categories }

Rep(n, x) == [i \in 1..n |-> x]

Complexities ==
    (ComplexityThreshold - MaxOver)..(ComplexityThreshold + MaxOver)

\* the list with the issues at i and i + 1 exchanged
SwapAt(list, i) ==
    [j \in 1..Len(list) |->
        IF j = i THEN list[i + 1] ELSE IF j = i + 1 THEN list[i] ELSE list[j]]

InitScores ==
    /\ pc = "args"
    /\ config = NoConfig
    /\ code = <<>>
    /\ fault = "none"
    /\ outcome = "none"
    /\ report = NoReport
    /\ issuesArg = <<>>
    /\ metricsArg = 0
    /\ scores = NoScores

\* the caller builds a list: a run of one issue, then some of another
ChooseIssues ==
    /\ pc = "args"
    /\ \E k \in 0..MaxRepeat, n \in 0..MaxOther, a \in IssueKinds,
          b \in IssueKinds :
        issuesArg' = Rep(k, a) \o Rep(n, b)
    /\ pc' = "list"
    /\ UNCHANGED <<config, code, fault, outcome, report, metricsArg, scores>>

\* the caller reorders the list
Permute ==
    /\ pc = "list"
    /\ \E i \in 1..(Len(issuesArg) - 1) :
        /\ issuesArg[i] # issuesArg[i + 1]
        /\ issuesArg' = SwapAt(issuesArg, i)
    /\ UNCHANGED <<pc, config, code, fault, outcome, report, metricsArg,
                   scores>>

CalculateScores ==
    /\ pc = "list"
    /\ \E c \in Complexities :
        /\ metricsArg' = c
        /\ scores' = _calculate_scores(issuesArg, c)
    /\ pc' = "scored"
    /\ UNCHANGED <<config, code, fault, outcome, report, issuesArg>>

NextScores == ChooseIssues \/ Permute \/ CalculateScores

SpecScores == InitScores /\ [][NextScores]_vars

---------------------------------------------------------------------------
(* agent = ZV0Agent(config_path); agent.analyzer.analyze_code(code, ...) *)

InitAgent ==
    /\ pc = "new"
    /\ config = NoConfig
    /\ code = <<>>
    /\ fault = "none"
    /\ outcome = "none"
    /\ report = NoReport
    /\ issuesArg = <<>>
    /\ metricsArg = 0
    /\ scores = NoScores

\* self.config = self._load_config(config_path); self.analyzer = CodeAnalyzer()
ZV0AgentInit ==
    /\ pc = "new"
    /\ \E source \in ConfigSources : config' = _load_config(source)
    /\ pc' = "edit"
    /\ UNCHANGED <<code, fault, outcome, report, issuesArg, metricsArg, scores>>

NextAgent == ZV0AgentInit \/ TypeLine \/ AnalyzeCode \/ NextCall

SpecAgent == InitAgent /\ [][NextAgent]_vars

---------------------------------------------------------------------------
(* The analyzer's entry point and its score calculator together *)

InitAll == Init \/ InitScores

NextAll ==
    \/ TypeLine \/ AnalyzeCode \/ NextCall
    \/ ChooseIssues \/ Permute \/ CalculateScores

SpecAll == InitAll /\ [][NextAll]_vars

---------------------------------------------------------------------------
(* Properties *)

\* analyze_code has returned a report
Returned == pc = "done" /\ outcome = "returned"

\* the try block of the last call raised: the parse, or a later step
Failed == ParseError(code) # NoExc \/ fault # "none"

ErrorPath == Returned /\ Failed
NormalPath == Returned /\ ~Failed

InRange(x) == x \in 0..100

\* C1: every score of every report analyze_code returns, and every score
\* _calculate_scores returns for any list of issues and any complexity, is
\* an integer from 0 to 100.
C1_ScoresInRange ==
    /\ Returned =>
        /\ InRange(report.overall_score)
        /\ InRange(report.security_score)
        /\ InRange(report.maintainability_score)
        /\ InRange(report.performance_score)
    /\ pc = "scored" =>
        /\ InRange(scores.overall)
        /\ InRange(scores.security)
        /\ InRange(scores.maintainability)
        /\ InRange(scores.performance)

\* a report of the normal path that holds a security and a performance issue
C1_Witness ==
    /\ NormalPath
    /\ \E i, j \in 1..Len(report.issues) :
        /\ report.issues[i].category = "security"
        /\ report.issues[j].category = "performance"
    /\ report.overall_score < 100

\* C2: when the parse or a later step fails, analyze_code does not raise; it
\* returns the report with four scores of 0, zeroed metrics, the one issue
\* (high, line 0, general, "Analysis error: <cause>") and the one suggestion
\* "Check your input code", and nothing of what the failed call computed.
C2_ErrorReport ==
    /\ pc = "done" => outcome = "returned"
    /\ ErrorPath =>
        /\ report.overall_score = 0
        /\ report.security_score = 0
        /\ report.maintainability_score = 0
        /\ report.performance_score = 0
        /\ report.complexity_metrics.cyclomatic_complexity = 0
        /\ report.complexity_metrics.lines_of_code = 0
        /\ report.complexity_metrics.comment_ratio.num = 0
        /\ report.complexity_metrics.function_count = 0
        /\ report.complexity_metrics.class_count = 0
        /\ Len(report.issues) = 1
        /\ report.issues[1].severity = "high"
        /\ report.issues[1].line_number = 0
        /\ report.issues[1].category = "general"
        /\ report.issues[1].message
              = "Analysis error: " \o Raised(code, fault).msg
        /\ report.suggestions = << "Check your input code" >>

\* memory runs out in the second traversal of a text that holds a dangerous
\* call and a function: its metrics were computed, its issues half way
C2_Witness ==
    /\ ErrorPath
    /\ fault = "_analyze_code"
    /\ \E n \in 1..Len(code) : code[n].stmt = Stmt("Call", "Name", "eval", 0)
    /\ \E n \in 1..Len(code) : code[n].stmt.kind = "FunctionDef"
    /\ report.issues[1].message = "Analysis error: "

Capitalized(category) ==
    CASE category = "security" -> "Security"
      [] category = "performance" -> "Performance"
      [] category = "general" -> "General"

\* C5: issues and suggestions of a returned report have the same length, and
\* on the normal path suggestion i is the capitalized category of issue i,
\* then ": ", then its message: one per issue, in order, repeats kept.
C5_Suggestions ==
    /\ Returned => Len(report.suggestions) = Len(report.issues)
    /\ NormalPath =>
        \A i \in 1..Len(report.issues) :
            report.suggestions[i]
                = Capitalized(report.issues[i].category) \o ": "
                    \o report.issues[i].message

\* two issues with the same category and message, on different lines
C5_Witness ==
    /\ NormalPath
    /\ Len(report.issues) = 2
    /\ report.issues[1].line_number # report.issues[2].line_number
    /\ report.suggestions[1] = report.suggestions[2]
    /\ report.suggestions[1] = "Security: Potentially dangerous function: eval"

Metrics == report.complexity_metrics

\* C7 as stated: the metrics of every returned report have a cyclomatic
\* complexity of 1 or more (and no negative count), whichever path of
\* analyze_code returned it.
C7_Original ==
    Returned =>
        /\ Metrics.cyclomatic_complexity >= 1
        /\ Metrics.lines_of_code >= 0
        /\ Metrics.function_count >= 0
        /\ Metrics.class_count >= 0

\* C7, amended: a report of the normal path has a cyclomatic complexity of 1
\* or more; a report of the error path has a cyclomatic complexity of 0; in
\* both, lines_of_code, function_count and class_count are 0 or more.
C7_Metrics ==
    /\ NormalPath => Metrics.cyclomatic_complexity >= 1
    /\ ErrorPath => Metrics.cyclomatic_complexity = 0
    /\ Returned =>
        /\ Metrics.lines_of_code >= 0
        /\ Metrics.function_count >= 0
        /\ Metrics.class_count >= 0

\* the empty text: complexity 1, no line, no function
C7_Witness ==
    /\ NormalPath
    /\ code = <<>>
    /\ Metrics.cyclomatic_complexity = 1
    /\ Metrics.lines_of_code = 0

IsDangerousCall(l) ==
    /\ l.stmt.kind = "Call"
    /\ l.stmt.func = "Name"
    /\ l.stmt.id \in {"eval", "exec", "open"}

\* the security issues of the report on line n
SecurityAt(n) ==
    { i \in 1..Len(report.issues) :
        /\ report.issues[i].category = "security"
        /\ report.issues[i].line_number = n }

\* one security issue for each call of a bare eval, exec or open, on its
\* line and with its name; none for any other line
OneIssuePerDangerousCall ==
    /\ \A n \in 1..Len(code) :
        IF IsDangerousCall(code[n])
        THEN /\ Cardinality(SecurityAt(n)) = 1
             /\ \A i \in SecurityAt(n) :
                  /\ report.issues[i].severity = "high"
                  /\ report.issues[i].message
                        = "Potentially dangerous function: " \o code[n].stmt.id
        ELSE SecurityAt(n) = {}
    /\ \A i \in 1..Len(report.issues) :
        report.issues[i].category = "security"
            => report.issues[i].line_number \in 1..Len(code)

\* the one flagged construct of the text is a bare eval call on line 3
OnlyEvalAtLine3 ==
    /\ Len(code) >= 3
    /\ code[3].stmt = Stmt("Call", "Name", "eval", 0)
    /\ \A n \in 1..Len(code) : n # 3 => ~IsDangerousCall(code[n])
    /\ \A i \in 1..Len(report.issues) :
        report.issues[i].category # "performance"

ScenarioA ==
    /\ Len(report.issues) = 1
    /\ report.issues[1].line_number = 3
    /\ report.security_score = 95
    /\ report.overall_score = 95

\* C8 as stated: one high security issue per call of a bare eval, exec or
\* open and none for an attribute or another name; and a text whose only
\* flagged construct is a bare eval call on line 3 yields one issue, on line
\* 3, a security score of 95 and an overall score of 95.
C8_Original ==
    NormalPath =>
        /\ OneIssuePerDangerousCall
        /\ OnlyEvalAtLine3 => ScenarioA

\* C8, amended: the same, the overall score of 95 for the texts whose
\* cyclomatic complexity is 10 or less; above 10 the text yields the one
\* issue on line 3, a security score of 95 and an overall score of 90.
C8_DangerousCalls ==
    NormalPath =>
        /\ OneIssuePerDangerousCall
        /\ OnlyEvalAtLine3 /\ Metrics.cyclomatic_complexity <= 10 => ScenarioA
        /\ OnlyEvalAtLine3 /\ Metrics.cyclomatic_complexity > 10 =>
            /\ Len(report.issues) = 1
            /\ report.issues[1].line_number = 3
            /\ report.security_score = 95
            /\ report.overall_score = 90

\* two plain statements, then eval on line 3, beside an attribute call
C8_Witness ==
    /\ NormalPath
    /\ OnlyEvalAtLine3
    /\ \E n \in 1..Len(code) : code[n].stmt = Stmt("Call", "Attribute", "eval", 0)
    /\ \E n \in 1..Len(code) : code[n].stmt = Stmt("Call", "Name", "print", 0)
    /\ ScenarioA

IsLoopAt(tree, order, k) ==
    order[k] # 0 /\ tree[order[k]].kind \in {"For", "While"}

IsDefAt(tree, order, k) ==
    order[k] # 0 /\ tree[order[k]].kind = "FunctionDef"

\* the counter after the k-th node of the traversal: the loops met since the
\* last function definition, or since the start
CounterAt(tree, order, k) ==
    Cardinality({ j \in 1..k :
                    /\ IsLoopAt(tree, order, j)
                    /\ \A d \in j..k : ~IsDefAt(tree, order, d) })

\* the places of the traversal at which the rule emits an issue
Flagged(tree, order) ==
    { k \in 1..Len(order) :
        IsLoopAt(tree, order, k) /\ CounterAt(tree, order, k) > 2 }

IsPerformance(issue) == issue.category = "performance"

TripleLoop ==
    << Line(0, Stmt("FunctionDef", "", "", 0)), Line(1, Stmt("For", "", "", 0)),
       Line(2, Stmt("For", "", "", 0)), Line(3, Stmt("For", "", "", 0)) >>

\* C10: the nested-loop rule is one counter over the traversal: 0 at the
\* start, one more at each for/while node, 0 again at each function
\* definition; a loop node gets the issue (medium, performance, its line,
\* "Deeply nested loops (depth n)") exactly when the counter is n > 2 after
\* it.  A function whose body is a for in a for in a for gets the issue for
\* the innermost loop at depth 3, and a performance score of 97.
C10_NestedLoops ==
    NormalPath =>
        LET tree == parse(code)
            order == walk(tree)
            flagged == Flagged(tree, order)
            found == SelectSeq(report.issues, IsPerformance)
        IN  /\ Len(found) = Cardinality(flagged)
            /\ \A k \in flagged :
                found[Cardinality({ j \in flagged : j <= k })]
                    = [severity |-> "medium",
                       line_number |-> tree[order[k]].lineno,
                       message |-> "Deeply nested loops (depth "
                                      \o ToString(CounterAt(tree, order, k))
                                      \o ")",
                       category |-> "performance"]
            /\ code = TripleLoop =>
                /\ Len(found) = 1
                /\ found[1].line_number = 4
                /\ found[1].message = "Deeply nested loops (depth 3)"
                /\ report.performance_score = 97

C10_Witness ==
    /\ NormalPath
    /\ code = TripleLoop
    /\ report.performance_score = 97

\* C4: in a text whose statements follow one another at one level, the issues
\* of the report are in source order: an issue never stands before an issue
\* of a smaller line number, whichever rule produced either.
C4_SourceOrder ==
    NormalPath /\ (\A n \in 1..Len(code) : code[n].indent = 0) =>
        \A i, j \in 1..Len(report.issues) :
            i < j => report.issues[i].line_number
                        <= report.issues[j].line_number

\* C3: with security_checks false an analysis emits no security issue, with
\* performance_checks false no performance issue.
C3_ConfigControlsRules ==
    NormalPath =>
        /\ ("security_checks" \in DOMAIN config /\ ~config.security_checks) =>
            \A i \in 1..Len(report.issues) :
                report.issues[i].category # "security"
        /\ ("performance_checks" \in DOMAIN config
                /\ ~config.performance_checks) =>
            \A i \in 1..Len(report.issues) :
                report.issues[i].category # "performance"

\* C6: _calculate_scores returns the same scores for every permutation of
\* the list: for the list with any two neighbours exchanged (the exchanges
\* that make up every permutation, each of which the caller can reach), also
\* when the deductions exceed 100.
C6_OrderIndependent ==
    pc = "scored" =>
        \A i \in 1..(Len(issuesArg) - 1) :
            issuesArg[i] # issuesArg[i + 1] =>
                _calculate_scores(SwapAt(issuesArg, i), metricsArg) = scores

\* deductions above 100, a score clamped to 0, and an issue of another kind
\* moved into the run
C6_Witness ==
    /\ pc = "scored"
    /\ Len(issuesArg) > 20
    /\ scores.overall = 0
    /\ \E i \in 2..(Len(issuesArg) - 1) :
        /\ issuesArg[i] # issuesArg[i + 1]
        /\ issuesArg[i] # issuesArg[i - 1]

D(issue) ==
    CASE issue.severity = "high" -> 5
      [] issue.severity = "medium" -> 3
      [] OTHER -> 1

\* the sum of d over the issues at the places in S
RECURSIVE SumD(_, _)
SumD(S, issues) ==
    IF S = {} THEN 0
    ELSE LET i == CHOOSE i \in S : TRUE
         IN  D(issues[i]) + SumD(S \ {i}, issues)

InCategory(issues, category) ==
    { i \in 1..Len(issues) : issues[i].category = category }

AtLeast0(x) == IF x < 0 THEN 0 ELSE x

OverThreshold == IF metricsArg > 10 THEN 1 ELSE 0

\* C9: with d = 5 for high, 3 for medium, 1 for another severity, and c = 1
\* when the complexity is above 10, else 0: overall = max(0, 100 - the sum
\* of d over all issues - 5c), security and performance = max(0, 100 - the
\* sum of d over the issues of that category), maintainability = 100 - 10c.
C9_ScoreReference ==
    pc = "scored" =>
        /\ scores.overall
             = AtLeast0(100 - SumD(1..Len(issuesArg), issuesArg)
                            - 5 * OverThreshold)
        /\ scores.security
             = AtLeast0(100 - SumD(InCategory(issuesArg, "security"), issuesArg))
        /\ scores.performance
             = AtLeast0(100 - SumD(InCategory(issuesArg, "performance"),
                                   issuesArg))
        /\ scores.maintainability = 100 - 10 * OverThreshold

\* a complexity of 12, medium issues of no scored category and a low one
C9_Witness ==
    /\ pc = "scored"
    /\ metricsArg = 12
    /\ Len(issuesArg) > 2
    /\ issuesArg[1].category = "general"
    /\ issuesArg[1].severity = "medium"
    /\ \E i \in 1..Len(issuesArg) : issuesArg[i].severity = "low"
    /\ scores.security = 100
    /\ scores.maintainability = 90
    /\ scores.overall < 95

====
